---- MODULE Spec2Model ----
(***************************************************************************)
(* A model of additions/camoucfg/MaskConfig.hpp: the once-only assembly    *)
(* and parse of the CAMOU_CONFIG environment variables (GetJson), the      *)
(* typed accessors built on the parsed document, and the lock-guarded      *)
(* cache of GetStringListLower.                                            *)
(*                                                                         *)
(* Representation.                                                         *)
(*  - A 64-bit magnitude is four base-65536 limbs <<l3, l2, l1, l0>>, most *)
(*    significant first, so that 2^32 and 2^64-1 are the real values.      *)
(*  - A JSON element is [t |-> tape type, v |-> payload]; the tape types   *)
(*    are those of simdjson's DOM: null, bool, int64, uint64, double,      *)
(*    string, array, object.  An object is the sequence of its members     *)
(*    [k |-> key, v |-> element], in document order.                       *)
(*  - A JSON string value is a sequence of one-character strings, a key    *)
(*    is a string.                                                         *)
(*  - std::optional<T> is Nullopt or Some(x); a simdjson_result<T> is      *)
(*    Err or Ok(x).                                                        *)
(***************************************************************************)
EXTENDS Integers, Sequences, FiniteSets

(***************************************************************************)
(* Bounds of the model.                                                    *)
(***************************************************************************)
\* threads that call GetJson / GetStringListLower concurrently
NThreads == 2
\* highest index i for which CAMOU_CONFIG_i may be set
MaxShards == 2
\* total number of tokens in all the environment variables together
MaxEnvLen == 4
\* entries of the "voices" array
MaxVoices == 3
\* calls of GetStringListLower the threads make in all
MaxCalls == 3

Threads == 1..NThreads

(***************************************************************************)
(* std::optional and simdjson_result                                       *)
(***************************************************************************)
Nullopt == [has |-> FALSE]
Some(x) == [has |-> TRUE, val |-> x]
Err == [err |-> TRUE]
Ok(x) == [err |-> FALSE, val |-> x]

(***************************************************************************)
(* 64-bit magnitudes                                                       *)
(***************************************************************************)
Mag(n) == <<0, 0, n \div 65536, n % 65536>>
MagLT(a, b) ==
  \E i \in 1..4 : a[i] < b[i] /\ \A j \in 1..(i - 1) : a[j] = b[j]
MagLE(a, b) == a = b \/ MagLT(a, b)

\* std::numeric_limits<T>::max() and ::min()
U32Max == <<0, 0, 65535, 65535>>
U64Max == <<65535, 65535, 65535, 65535>>
I64Max == <<32767, 65535, 65535, 65535>>
I32Max == <<0, 0, 32767, 65535>>
I32MinMag == <<0, 0, 32768, 0>>
Pow32 == <<0, 1, 0, 0>>
Pow63 == <<32768, 0, 0, 0>>

\* static_cast<uint32_t>(u): the low 32 bits
TruncU32(m) == <<0, 0, m[3], m[4]>>

(***************************************************************************)
(* JSON elements as the external parser yields them                        *)
(***************************************************************************)
El(t, v) == [t |-> t, v |-> v]
JNull == El("null", <<>>)
JBool(b) == El("bool", b)
JStr(s) == El("string", s)
JArr(a) == El("array", a)
JObj(ms) == El("object", ms)
Member(k, e) == [k |-> k, v |-> e]
\* A double is +-(mag + 1/2 if half), or +-2^64 when pow64.
Dbl(neg, mag, half) == [neg |-> neg, mag |-> mag, half |-> half, pow64 |-> FALSE]
JDbl(neg, mag, half) == El("double", Dbl(neg, mag, half))
\* An integer literal is stored as int64 when it fits, else as uint64
\* (simdjson's number parser); literals beyond 2^64-1 do not parse.
JInt(neg, mag) ==
  IF neg \/ MagLE(mag, I64Max)
    THEN El("int64", [neg |-> neg /\ mag # Mag(0), mag |-> mag])
    ELSE El("uint64", mag)
\* root before the initializer has run: a default-constructed dom::element
Uninit == El("uninit", <<>>)
EmptyObject == JObj(<<>>)

(***************************************************************************)
(* static_cast<double>(integer): round to 53 significant bits, ties to     *)
(* even.                                                                   *)
(***************************************************************************)
Ulp(m) ==
  LET h == m[1] IN
  IF h < 32 THEN 1 ELSE IF h < 64 THEN 2 ELSE IF h < 128 THEN 4
  ELSE IF h < 256 THEN 8 ELSE IF h < 512 THEN 16 ELSE IF h < 1024 THEN 32
  ELSE IF h < 2048 THEN 64 ELSE IF h < 4096 THEN 128 ELSE IF h < 8192 THEN 256
  ELSE IF h < 16384 THEN 512 ELSE IF h < 32768 THEN 1024 ELSE 2048

MagToDouble(neg, m) ==
  LET u == Ulp(m)
      q == m[4] \div u
      r == m[4] % u
      up == u > 1 /\ (2 * r > u \/ (2 * r = u /\ q % 2 = 1))
      l0 == (IF up THEN q + 1 ELSE q) * u
      c0 == l0 = 65536
      l1 == IF c0 THEN m[3] + 1 ELSE m[3]
      c1 == l1 = 65536
      l2 == IF c1 THEN m[2] + 1 ELSE m[2]
      c2 == l2 = 65536
      l3 == IF c2 THEN m[1] + 1 ELSE m[1]
      c3 == l3 = 65536
  IN [neg |-> neg,
      mag |-> <<l3 % 65536, l2 % 65536, l1 % 65536, l0 % 65536>>,
      half |-> FALSE, pow64 |-> c3]

(***************************************************************************)
(* simdjson::dom::element::get<T>, is_null, and object::at_key             *)
(***************************************************************************)
get_string(el) == IF el.t = "string" THEN Ok(el.v) ELSE Err
get_bool(el) == IF el.t = "bool" THEN Ok(el.v) ELSE Err
get_object(el) == IF el.t = "object" THEN Ok(el.v) ELSE Err
get_array(el) == IF el.t = "array" THEN Ok(el.v) ELSE Err
is_null(el) == el.t = "null"

\* uint64_t: the unsigned encoding, or a non-negative signed one
get_uint64(el) ==
  IF el.t = "uint64" THEN Ok(el.v)
  ELSE IF el.t = "int64" THEN (IF el.v.neg THEN Err ELSE Ok(el.v.mag))
  ELSE Err

\* int64_t: the signed encoding, or an unsigned one up to INT64_MAX
get_int64(el) ==
  IF el.t = "int64" THEN Ok(el.v)
  ELSE IF el.t = "uint64"
    THEN (IF MagLT(I64Max, el.v) THEN Err ELSE Ok([neg |-> FALSE, mag |-> el.v]))
  ELSE Err

\* double: any of the three number encodings
get_double(el) ==
  IF el.t = "double" THEN Ok(el.v)
  ELSE IF el.t = "uint64" THEN Ok(MagToDouble(FALSE, el.v))
  ELSE IF el.t = "int64" THEN Ok(MagToDouble(el.v.neg, el.v.mag))
  ELSE Err

\* the first member with that key
at_key(obj, key) ==
  LET hits == {i \in 1..Len(obj) : obj[i].k = key}
  IN IF hits = {} THEN Err
     ELSE Ok(obj[CHOOSE i \in hits : \A j \in hits : i <= j].v)

(***************************************************************************)
(* std::to_string(uint32_t): the decimal digits                            *)
(***************************************************************************)
Digits == <<"0", "1", "2", "3", "4", "5", "6", "7", "8", "9">>
RECURSIVE to_string(_)
to_string(n) ==
  IF n < 10 THEN Digits[n + 1]
  ELSE to_string(n \div 10) \o Digits[(n % 10) + 1]

(***************************************************************************)
(* std::tolower in the "C" locale, applied to each character of a string   *)
(***************************************************************************)
UpperCase == <<"A", "B", "C", "D", "E", "F", "G", "H", "I", "J", "K", "L", "M",
               "N", "O", "P", "Q", "R", "S", "T", "U", "V", "W", "X", "Y", "Z">>
LowerCase == <<"a", "b", "c", "d", "e", "f", "g", "h", "i", "j", "k", "l", "m",
               "n", "o", "p", "q", "r", "s", "t", "u", "v", "w", "x", "y", "z">>
LowerOf ==
  [c \in {UpperCase[i] : i \in 1..26} |->
     LowerCase[CHOOSE i \in 1..26 : UpperCase[i] = c]]
tolower(c) == IF c \in DOMAIN LowerOf THEN LowerOf[c] ELSE c
LowerString(s) == [i \in 1..Len(s) |-> tolower(s[i])]

(***************************************************************************)
(* The typed accessors.  Each takes the document GetJson() returns as      *)
(* its first argument, data.                                               *)
(***************************************************************************)
\* const auto& data = GetJson(); data.get(obj); obj.at_key(key).get(el)
Lookup(data, key) ==
  LET obj == get_object(data)
  IN IF obj.err THEN Err ELSE at_key(obj.val, key)

GetString(data, key) ==
  LET el == Lookup(data, key)
  IN IF el.err THEN Nullopt
     ELSE LET sv == get_string(el.val)
          IN IF sv.err THEN Nullopt ELSE Some(sv.val)

RECURSIVE StringsOf(_)
StringsOf(arr) ==
  IF arr = <<>> THEN <<>>
  ELSE LET sv == get_string(Head(arr))
       IN (IF sv.err THEN <<>> ELSE <<sv.val>>) \o StringsOf(Tail(arr))

GetStringList(data, key) ==
  LET el == Lookup(data, key)
  IN IF el.err THEN <<>>
     ELSE LET arr == get_array(el.val)
          IN IF arr.err THEN <<>> ELSE StringsOf(arr.val)

\* the loop of GetStringListLower over the list GetStringList returns
LowerList(result) == [i \in 1..Len(result) |-> LowerString(result[i])]

\* static_cast<T>(u) for an unsigned T whose maximum is tmax
CastUnsigned(m, tmax) == IF tmax = U32Max THEN TruncU32(m) ELSE m

\* the value is cast to T without the check against T's maximum
GetUintImplNoRange(data, key, tmax) ==
  LET el == Lookup(data, key)
  IN IF el.err THEN Nullopt
     ELSE LET u == get_uint64(el.val)
          IN IF ~u.err THEN Some(CastUnsigned(u.val, tmax)) ELSE Nullopt

GetUintImpl(data, key, tmax) ==
  LET el == Lookup(data, key)
  IN IF el.err THEN Nullopt
     ELSE LET u == get_uint64(el.val)
              i == get_int64(el.val)
          IN IF ~u.err
               THEN (IF MagLT(tmax, u.val) THEN Nullopt
                     ELSE Some(CastUnsigned(u.val, tmax)))
             ELSE IF ~i.err /\ ~i.val.neg
               THEN (IF MagLT(tmax, i.val.mag) THEN Nullopt
                     ELSE Some(CastUnsigned(i.val.mag, tmax)))
             ELSE Nullopt

GetUint64(data, key) == GetUintImpl(data, key, U64Max)

GetUint32(data, key) == GetUintImpl(data, key, U32Max)

\* v < INT32_MIN || v > INT32_MAX
OutOfInt32(v) ==
  IF v.neg THEN MagLT(I32MinMag, v.mag) ELSE MagLT(I32Max, v.mag)

GetInt32(data, key) ==
  LET el == Lookup(data, key)
  IN IF el.err THEN Nullopt
     ELSE LET v == get_int64(el.val)
          IN IF v.err THEN Nullopt
             ELSE IF OutOfInt32(v.val) THEN Nullopt
             ELSE Some(v.val)

GetDouble(data, key) ==
  LET el == Lookup(data, key)
  IN IF el.err THEN Nullopt
     ELSE LET d == get_double(el.val)
              i == get_int64(el.val)
              u == get_uint64(el.val)
          IN IF ~d.err THEN Some(d.val)
             ELSE IF ~i.err THEN Some(MagToDouble(i.val.neg, i.val.mag))
             ELSE IF ~u.err THEN Some(MagToDouble(FALSE, u.val))
             ELSE Nullopt

GetBool(data, key) ==
  LET el == Lookup(data, key)
  IN IF el.err THEN Nullopt
     ELSE LET b == get_bool(el.val)
          IN IF b.err THEN Nullopt ELSE Some(b.val)

\* std::optional<T>::value_or
value_or(opt, dflt) == IF opt.has THEN opt.val ELSE dflt

CheckBool(data, key) == value_or(GetBool(data, key), FALSE)

\* all four values are required
GetRectAllRequired(data, left, top, width, height) ==
  LET leftOpt == GetUint32(data, left)
      topOpt == GetUint32(data, top)
      widthOpt == GetUint32(data, width)
      heightOpt == GetUint32(data, height)
  IN IF ~leftOpt.has \/ ~topOpt.has \/ ~widthOpt.has \/ ~heightOpt.has
       THEN Nullopt
     ELSE Some(<<leftOpt.val, topOpt.val, widthOpt.val, heightOpt.val>>)

GetRect(data, left, top, width, height) ==
  LET leftOpt == GetUint32(data, left)
      topOpt == GetUint32(data, top)
      widthOpt == GetUint32(data, width)
      heightOpt == GetUint32(data, height)
  IN IF ~widthOpt.has \/ ~heightOpt.has THEN Nullopt
     ELSE Some(<<value_or(leftOpt, Mag(0)), value_or(topOpt, Mag(0)),
                 widthOpt.val, heightOpt.val>>)

\* whether GetRect prints "Both %s and %s must be provided"
GetRectDiagnostic(data, width, height) ==
  GetUint32(data, width).has # GetUint32(data, height).has

GetInt32Rect(data, left, top, width, height) ==
  LET optValue == GetRect(data, left, top, width, height)
  IN IF ~optValue.has THEN Nullopt
     ELSE IF \E i \in 1..4 : MagLT(I32Max, optValue.val[i]) THEN Nullopt
     ELSE Some([i \in 1..4 |-> [neg |-> FALSE, mag |-> optValue.val[i]]])

GetNested(data, domain, keyStr) ==
  LET domainEl == Lookup(data, domain)
  IN IF domainEl.err THEN Nullopt
     ELSE LET out == Lookup(domainEl.val, keyStr)
          IN IF out.err THEN Nullopt ELSE Some(out.val)

\* the if-constexpr chain GetAttribute, MParamGL and MParamGLVector share:
\* the element decoded as the requested type T
Coerce(T, el) ==
  IF T = "bool" THEN
    (LET b == get_bool(el) IN IF b.err THEN Nullopt ELSE Some(b.val))
  ELSE IF T = "int32_t" THEN
    (LET i == get_int64(el)
     IN IF i.err THEN Nullopt
        ELSE IF OutOfInt32(i.val) THEN Nullopt ELSE Some(i.val))
  ELSE IF T = "uint32_t" THEN
    (LET u == get_uint64(el)
     IN IF u.err THEN Nullopt
        ELSE IF MagLT(U32Max, u.val) THEN Nullopt ELSE Some(TruncU32(u.val)))
  ELSE IF T = "double" THEN
    (LET d == get_double(el) IN IF d.err THEN Nullopt ELSE Some(d.val))
  ELSE IF T = "std::string" THEN
    (LET sv == get_string(el) IN IF sv.err THEN Nullopt ELSE Some(sv.val))
  ELSE Nullopt

AttributeDomain(isWebGL2) ==
  IF isWebGL2 THEN "webGl2:contextAttributes" ELSE "webGl:contextAttributes"
ParameterDomain(isWebGL2) ==
  IF isWebGL2 THEN "webGl2:parameters" ELSE "webGl:parameters"
ShaderDomain(isWebGL2) ==
  IF isWebGL2 THEN "webGl2:shaderPrecisionFormats"
  ELSE "webGl:shaderPrecisionFormats"

GetAttribute(data, T, attrib, isWebGL2) ==
  LET value == GetNested(data, AttributeDomain(isWebGL2), attrib)
  IN IF ~value.has THEN Nullopt ELSE Coerce(T, value.val)

\* the alternative of the std::variant GLParam returns, with its value
Variant(alt, val) == [alt |-> alt, val |-> val]

GLParam(data, pname, isWebGL2) ==
  LET value == GetNested(data, ParameterDomain(isWebGL2), to_string(pname))
  IN IF ~value.has THEN Nullopt
     ELSE LET el == value.val
              sv == get_string(el)
              d == get_double(el)
              i == get_int64(el)
              b == get_bool(el)
          IN IF is_null(el) THEN Some(Variant("nullptr_t", <<>>))
             ELSE IF ~sv.err THEN Some(Variant("string", sv.val))
             ELSE IF ~d.err THEN Some(Variant("double", d.val))
             ELSE IF ~i.err THEN Some(Variant("int64_t", i.val))
             ELSE IF ~b.err THEN Some(Variant("bool", b.val))
             ELSE Nullopt

MParamGL(data, T, pname, defaultValue, isWebGL2) ==
  LET value == GetNested(data, ParameterDomain(isWebGL2), to_string(pname))
  IN IF ~value.has THEN defaultValue
     ELSE value_or(Coerce(T, value.val), defaultValue)

MParamGLVector(data, T, pname, defaultValue, isWebGL2) ==
  LET value == GetNested(data, ParameterDomain(isWebGL2), to_string(pname))
  IN IF ~value.has THEN defaultValue
     ELSE LET arr == get_array(value.val)
          IN IF arr.err THEN defaultValue
             ELSE IF \E j \in 1..Len(arr.val) : ~Coerce(T, arr.val[j]).has
               THEN defaultValue
             ELSE [j \in 1..Len(arr.val) |-> Coerce(T, arr.val[j]).val]

MShaderData(data, shaderType, precisionType, isWebGL2) ==
  LET valueName == to_string(shaderType) \o "," \o to_string(precisionType)
      value == GetNested(data, ShaderDomain(isWebGL2), valueName)
  IN IF ~value.has THEN Nullopt
     ELSE LET eMin == Lookup(value.val, "rangeMin")
              eMax == Lookup(value.val, "rangeMax")
              ePrec == Lookup(value.val, "precision")
          IN IF eMin.err \/ eMax.err \/ ePrec.err THEN Nullopt
             ELSE LET rmin == get_int64(eMin.val)
                      rmax == get_int64(eMax.val)
                      prec == get_int64(ePrec.val)
                  IN IF rmin.err \/ rmax.err \/ prec.err THEN Nullopt
                     ELSE IF OutOfInt32(rmin.val) \/ OutOfInt32(rmax.val)
                             \/ OutOfInt32(prec.val) THEN Nullopt
                     ELSE Some(<<rmin.val, rmax.val, prec.val>>)

\* the body of the loop of MVoices: the tuple one entry yields, Nullopt for
\* an entry the loop skips with continue
VoiceKeys == <<"lang", "name", "voiceUri", "isDefault", "isLocalService">>

VoiceEntry(voiceEl) ==
  LET vObj == get_object(voiceEl)
  IN IF vObj.err THEN Nullopt
     ELSE LET langEl == at_key(vObj.val, VoiceKeys[1])
              nameEl == at_key(vObj.val, VoiceKeys[2])
              uriEl == at_key(vObj.val, VoiceKeys[3])
              defEl == at_key(vObj.val, VoiceKeys[4])
              localEl == at_key(vObj.val, VoiceKeys[5])
          IN IF langEl.err \/ nameEl.err \/ uriEl.err \/ defEl.err \/ localEl.err
               THEN Nullopt
             ELSE LET lang == get_string(langEl.val)
                      name == get_string(nameEl.val)
                      uri == get_string(uriEl.val)
                      isDefault == get_bool(defEl.val)
                      isLocal == get_bool(localEl.val)
                  IN IF lang.err \/ name.err \/ uri.err THEN Nullopt
                     ELSE IF isDefault.err \/ isLocal.err THEN Nullopt
                     ELSE Some(<<lang.val, name.val, uri.val,
                                 isDefault.val, isLocal.val>>)

\* break in place of continue: the loop ends at the first malformed entry
RECURSIVE VoicesLoopBreak(_, _)
VoicesLoopBreak(voicesArr, voices) ==
  IF voicesArr = <<>> THEN voices
  ELSE LET entry == VoiceEntry(Head(voicesArr))
       IN IF entry.has
            THEN VoicesLoopBreak(Tail(voicesArr), Append(voices, entry.val))
            ELSE voices

\* for (auto voiceEl : voicesArr) { ... continue; ... voices.emplace_back(...) }
RECURSIVE VoicesLoop(_, _)
VoicesLoop(voicesArr, voices) ==
  IF voicesArr = <<>> THEN voices
  ELSE LET entry == VoiceEntry(Head(voicesArr))
       IN VoicesLoop(Tail(voicesArr),
                     IF entry.has THEN Append(voices, entry.val) ELSE voices)

MVoices(data) ==
  LET voicesEl == Lookup(data, "voices")
  IN IF voicesEl.err THEN Nullopt
     ELSE LET voicesArr == get_array(voicesEl.val)
          IN IF voicesArr.err THEN Nullopt
             ELSE Some(VoicesLoop(voicesArr.val, <<>>))

(***************************************************************************)
(* The state.                                                              *)
(***************************************************************************)
VARIABLES
  \* the process environment and the branch of get_env_utf8 compiled in
  env, win32,
  \* GetJson: the statics initFlag, jsonPadded and root, and the locals of
  \* the initializer lambda
  initFlag, index, parts, jsonString, jsonPadded, root, logged,
  \* GetJson: the position of each thread, the document its last call
  \* returned, how often the lambda ran, and the threads that exist
  pc, seen, bodyRuns, live,
  \* a typed accessor called on the initialized document, and its result
  call, ret,
  \* GetStringListLower: the statics cacheLock (its readers and its writer)
  \* and cache
  readers, writer, cache,
  \* GetStringListLower: each thread's position, its key, its local result
  \* and what its last call returned; the calls made so far
  cpc, ckey, cresult, cret, ncalls,
  \* history: how often each thread computed the list of each key, and how
  \* often an insertion for each key took effect
  computes, commits

jsonVars == <<env, win32, initFlag, index, parts, jsonString, jsonPadded,
              root, logged, pc, seen, bodyRuns, live>>
accVars == <<call, ret>>
cacheVars == <<readers, writer, cache, cpc, ckey, cresult, cret, ncalls,
               computes, commits>>
vars == <<jsonVars, accVars, cacheVars>>

(***************************************************************************)
(* The environment.  A text is a sequence of tokens; the tokens are those  *)
(* of a JSON subset with one key and one number.                           *)
(***************************************************************************)
Tokens == {"{", "}", "k:", "1"}
Texts == UNION {[1..n -> Tokens] : n \in 0..MaxEnvLen}

\* "CAMOU_CONFIG_" + std::to_string(index)
EnvName(i) == "CAMOU_CONFIG_" \o to_string(i)
EnvNames == {"CAMOU_CONFIG"} \cup {EnvName(i) : i \in 1..MaxShards}

\* the name of variable i: 0 is the unindexed one
EnvNameOf == [i \in 0..MaxShards |-> IF i = 0 THEN "CAMOU_CONFIG" ELSE EnvName(i)]
EnvIndex(n) == CHOOSE i \in 0..MaxShards : EnvNameOf[i] = n

\* The environment whose texts are the pieces of T cut at c, the unindexed
\* variable first; an empty piece is a variable set to "" or, where a says
\* so, an unset one.
EnvOf(T, c, a) ==
  LET lo(i) == IF i = 0 THEN 0 ELSE c[i]
      hi(i) == IF i = MaxShards THEN Len(T) ELSE c[i + 1]
      piece(i) == SubSeq(T, lo(i) + 1, hi(i))
  IN [n \in EnvNames |->
        LET x == piece(EnvIndex(n))
        IN IF x = <<>> /\ a[n] THEN Nullopt ELSE Some(x)]

\* env is an environment of at most MaxEnvLen tokens in all
AnyEnv ==
  \E T \in Texts :
    \E c \in [1..MaxShards -> 0..Len(T)] :
      \E a \in [EnvNames -> BOOLEAN] :
        /\ \A i \in 1..(MaxShards - 1) : c[i] <= c[i + 1]
        /\ env = EnvOf(T, c, a)

\* the environments in which no variable holds more than one token
OnceEnvs ==
  [EnvNames -> {Nullopt, Some(<<>>)} \cup {Some(<<tok>>) : tok \in Tokens}]

get_env_utf8(name) ==
  IF name \notin DOMAIN env THEN Nullopt
  ELSE IF ~env[name].has THEN Nullopt
  ELSE IF win32 /\ env[name].val = <<>> THEN Nullopt
  ELSE Some(env[name].val)

(***************************************************************************)
(* simdjson::dom::parser::parse on a token text: exactly one value         *)
(*   value ::= "1" | "{" "}" | "{" "k:" value "}"                          *)
(* and an error for anything else, the empty text included.                *)
(***************************************************************************)
NoParse == [ok |-> FALSE]
RECURSIVE ParseValue(_, _)
ParseValue(text, p) ==
  IF p > Len(text) THEN NoParse
  ELSE IF text[p] = "1"
    THEN [ok |-> TRUE, val |-> JInt(FALSE, Mag(1)), next |-> p + 1]
  ELSE IF text[p] = "{" /\ p + 1 <= Len(text) /\ text[p + 1] = "}"
    THEN [ok |-> TRUE, val |-> EmptyObject, next |-> p + 2]
  ELSE IF text[p] = "{" /\ p + 1 <= Len(text) /\ text[p + 1] = "k:"
    THEN LET inner == ParseValue(text, p + 2)
         IN IF inner.ok /\ inner.next <= Len(text) /\ text[inner.next] = "}"
              THEN [ok |-> TRUE, val |-> JObj(<<Member("k", inner.val)>>),
                    next |-> inner.next + 1]
              ELSE NoParse
  ELSE NoParse

parse(text) ==
  LET r == ParseValue(text, 1)
  IN IF r.ok /\ r.next = Len(text) + 1 THEN Ok(r.val) ELSE Err

\* std::string_view("{}")
EmptyObjectText == <<"{", "}">>

\* parser.parse(jsonPadded).get(root): root is assigned on success only
ParseInto(text, old) ==
  LET r == parse(text) IN IF r.err THEN old ELSE r.val

\* for (const auto& p : parts) jsonString += p
RECURSIVE Concatenate(_)
Concatenate(ps) ==
  IF ps = <<>> THEN <<>> ELSE Head(ps) \o Concatenate(Tail(ps))

(***************************************************************************)
(* GetJson, one action per step of a call.                                 *)
(***************************************************************************)
\* a flag that reads as done from the moment the body starts
OncePassableEarly(flag) == flag # "idle"

\* std::call_once lets a caller through once the flag says the body is done
OncePassable(flag) == flag = "done"

\* a thread calls GetJson, directly or through an accessor
CallGetJson(t) ==
  /\ t \in live
  /\ pc[t] = "idle"
  /\ pc' = [pc EXCEPT ![t] = "call_once"]
  /\ UNCHANGED <<env, win32, initFlag, index, parts, jsonString, jsonPadded,
                 root, logged, seen, bodyRuns, live>>
  /\ UNCHANGED <<accVars, cacheVars>>

\* std::call_once, flag not yet taken: this thread runs the lambda
OnceRun(t) ==
  /\ pc[t] = "call_once"
  /\ initFlag = "idle"
  /\ initFlag' = "running"
  /\ bodyRuns' = bodyRuns + 1
  /\ index' = 1
  /\ parts' = <<>>
  /\ pc' = [pc EXCEPT ![t] = "loop"]
  /\ UNCHANGED <<env, win32, jsonString, jsonPadded, root, logged, seen, live>>
  /\ UNCHANGED <<accVars, cacheVars>>

\* std::call_once, body complete: the caller goes on to return root; while
\* the body runs in another thread the caller stays blocked here
OncePass(t) ==
  /\ pc[t] = "call_once"
  /\ OncePassable(initFlag)
  /\ pc' = [pc EXCEPT ![t] = "return"]
  /\ UNCHANGED <<env, win32, initFlag, index, parts, jsonString, jsonPadded,
                 root, logged, seen, bodyRuns, live>>
  /\ UNCHANGED <<accVars, cacheVars>>

\* one iteration of while (true): read CAMOU_CONFIG_<index>
ReadShard(t) ==
  /\ pc[t] = "loop"
  /\ LET partial == get_env_utf8(EnvName(index))
     IN IF ~partial.has
          THEN /\ pc' = [pc EXCEPT ![t] = "concat"]
               /\ UNCHANGED <<parts, index>>
          ELSE /\ parts' = Append(parts, partial.val)
               /\ index' = index + 1
               /\ UNCHANGED pc
  /\ UNCHANGED <<env, win32, initFlag, jsonString, jsonPadded, root, logged,
                 seen, bodyRuns, live>>
  /\ UNCHANGED <<accVars, cacheVars>>

\* jsonString is the concatenation of the parts
ConcatParts(t) ==
  /\ pc[t] = "concat"
  /\ jsonString' = Concatenate(parts)
  /\ pc' = [pc EXCEPT ![t] = "fallback"]
  /\ UNCHANGED <<env, win32, initFlag, index, parts, jsonPadded, root, logged,
                 seen, bodyRuns, live>>
  /\ UNCHANGED <<accVars, cacheVars>>

\* if (jsonString.empty()): fall back to the single CAMOU_CONFIG
Fallback(t) ==
  /\ pc[t] = "fallback"
  /\ LET original == get_env_utf8("CAMOU_CONFIG")
     IN jsonString' = IF jsonString = <<>> /\ original.has
                        THEN original.val ELSE jsonString
  /\ pc' = [pc EXCEPT ![t] = "parse"]
  /\ UNCHANGED <<env, win32, initFlag, index, parts, jsonPadded, root, logged,
                 seen, bodyRuns, live>>
  /\ UNCHANGED <<accVars, cacheVars>>

\* the failure is logged and nothing is substituted
ParseTextNoSubstitute(t) ==
  /\ pc[t] = "parse"
  /\ jsonPadded' = (IF jsonString = <<>> THEN EmptyObjectText ELSE jsonString)
  /\ root' = ParseInto(jsonPadded', root)
  /\ logged' = (logged \/ (jsonString # <<>> /\ parse(jsonString).err))
  /\ pc' = [pc EXCEPT ![t] = "finish"]
  /\ UNCHANGED <<env, win32, initFlag, index, parts, jsonString, seen,
                 bodyRuns, live>>
  /\ UNCHANGED <<accVars, cacheVars>>

\* the empty text is replaced by "{}"; any other text is parsed, and a
\* failure is logged
ParseText(t) ==
  /\ pc[t] = "parse"
  /\ IF jsonString = <<>>
       THEN /\ jsonPadded' = EmptyObjectText
            /\ root' = ParseInto(EmptyObjectText, root)
            /\ pc' = [pc EXCEPT ![t] = "finish"]
            /\ UNCHANGED logged
       ELSE /\ jsonPadded' = jsonString
            /\ root' = ParseInto(jsonString, root)
            /\ IF parse(jsonString).err
                 THEN /\ logged' = TRUE
                      /\ pc' = [pc EXCEPT ![t] = "reparse"]
                 ELSE /\ pc' = [pc EXCEPT ![t] = "finish"]
                      /\ UNCHANGED logged
  /\ UNCHANGED <<env, win32, initFlag, index, parts, jsonString, seen,
                 bodyRuns, live>>
  /\ UNCHANGED <<accVars, cacheVars>>

\* after the failure: jsonPadded = "{}", parsed into root
ParseEmptyObject(t) ==
  /\ pc[t] = "reparse"
  /\ jsonPadded' = EmptyObjectText
  /\ root' = ParseInto(EmptyObjectText, root)
  /\ pc' = [pc EXCEPT ![t] = "finish"]
  /\ UNCHANGED <<env, win32, initFlag, index, parts, jsonString, logged, seen,
                 bodyRuns, live>>
  /\ UNCHANGED <<accVars, cacheVars>>

\* the lambda returns: std::call_once marks the flag
OnceDone(t) ==
  /\ pc[t] = "finish"
  /\ initFlag' = "done"
  /\ pc' = [pc EXCEPT ![t] = "return"]
  /\ UNCHANGED <<env, win32, index, parts, jsonString, jsonPadded, root,
                 logged, seen, bodyRuns, live>>
  /\ UNCHANGED <<accVars, cacheVars>>

\* return root
ReturnRoot(t) ==
  /\ pc[t] = "return"
  /\ seen' = [seen EXCEPT ![t] = Some(root)]
  /\ pc' = [pc EXCEPT ![t] = "idle"]
  /\ UNCHANGED <<env, win32, initFlag, index, parts, jsonString, jsonPadded,
                 root, logged, bodyRuns, live>>
  /\ UNCHANGED <<accVars, cacheVars>>

GetJson(t) ==
  \/ CallGetJson(t)
  \/ OnceRun(t)
  \/ OncePass(t)
  \/ ReadShard(t)
  \/ ConcatParts(t)
  \/ Fallback(t)
  \/ ParseText(t)
  \/ ParseEmptyObject(t)
  \/ OnceDone(t)
  \/ ReturnRoot(t)

NextJson == \E t \in Threads : GetJson(t)

\* the keys GetStringListLower is called with
CacheKeys == {"a", "b"}

\* what the other two machines hold while GetJson is being checked
AccIdle == call = <<>> /\ ret = Nullopt
CacheIdle ==
  /\ readers = {} /\ writer = {}
  /\ cache = [k \in {} |-> <<>>]
  /\ cpc = [t \in Threads |-> "idle"]
  /\ ckey = [t \in Threads |-> ""]
  /\ cresult = [t \in Threads |-> <<>>]
  /\ cret = [t \in Threads |-> Nullopt]
  /\ ncalls = 0
  /\ computes = [t \in Threads |-> [k \in CacheKeys |-> 0]]
  /\ commits = [k \in CacheKeys |-> 0]

\* before the first call of GetJson
JsonFresh ==
  /\ initFlag = "idle" /\ index = 0 /\ parts = <<>>
  /\ jsonString = <<>> /\ jsonPadded = <<>>
  /\ root = Uninit /\ logged = FALSE
  /\ pc = [t \in Threads |-> "idle"]
  /\ seen = [t \in Threads |-> Nullopt]
  /\ bodyRuns = 0

\* every thread may call, in an environment of one-token variables
Init ==
  /\ env \in OnceEnvs /\ win32 \in BOOLEAN
  /\ live = Threads
  /\ JsonFresh /\ AccIdle /\ CacheIdle

Spec == Init /\ [][NextJson]_vars

\* one caller, in any environment of at most MaxEnvLen tokens
InitEnv ==
  /\ AnyEnv /\ win32 \in BOOLEAN
  /\ live = {1}
  /\ JsonFresh /\ AccIdle /\ CacheIdle

SpecEnv == InitEnv /\ [][NextJson]_vars

\* one caller; the text is supplied whole, as CAMOU_CONFIG or as
\* CAMOU_CONFIG_1, and every text of at most MaxEnvLen tokens is supplied
WholeEnv ==
  \E T \in Texts :
    \E n \in {"CAMOU_CONFIG", EnvName(1)} :
      \E a \in [EnvNames -> BOOLEAN] :
        env = [m \in EnvNames |->
                 IF m = n THEN Some(T)
                 ELSE IF a[m] THEN Nullopt ELSE Some(<<>>)]

InitParse ==
  /\ WholeEnv /\ win32 \in BOOLEAN
  /\ live = {1}
  /\ JsonFresh /\ AccIdle /\ CacheIdle

SpecParse == InitParse /\ [][NextJson]_vars

(***************************************************************************)
(* C1.  However the threads that call GetJson interleave, the body of the  *)
(* initializer runs exactly once, no caller returns from GetJson (or is    *)
(* about to) before the body has completed, and every call of every caller *)
(* returns the one document the static root holds.                         *)
(***************************************************************************)
C1_ExactlyOnce ==
  /\ bodyRuns <= 1
  /\ \A t \in Threads :
       (pc[t] = "return" \/ seen[t].has) => (initFlag = "done" /\ bodyRuns = 1)
  /\ \A t \in Threads : seen[t].has => seen[t].val = root
  /\ \A t, u \in Threads : (seen[t].has /\ seen[u].has) => seen[t] = seen[u]

\* C1: every thread has returned from a call, one of them having run the body
C1_Witness ==
  /\ \A t \in Threads : seen[t].has
  /\ bodyRuns = 1

(***************************************************************************)
(* C4.  The text the initializer assembles is, when CAMOU_CONFIG_1 is set, *)
(* the concatenation of CAMOU_CONFIG_1..N up to the first missing index,   *)
(* whether or not CAMOU_CONFIG is set; when it is not set, the content of  *)
(* CAMOU_CONFIG; and empty when neither is set.                            *)
(***************************************************************************)
RECURSIVE ShardRun(_)
ShardRun(i) ==
  IF i > MaxShards \/ ~env[EnvName(i)].has THEN <<>>
  ELSE env[EnvName(i)].val \o ShardRun(i + 1)

ClaimedText ==
  IF env[EnvName(1)].has THEN ShardRun(1)
  ELSE IF env["CAMOU_CONFIG"].has THEN env["CAMOU_CONFIG"].val
  ELSE <<>>

C4_IndexedSupersedes == initFlag = "done" => jsonString = ClaimedText

(***************************************************************************)
(* C6.  Once initialization has completed the root is the parsed root of   *)
(* the assembled text when that text is well formed (whatever the type of  *)
(* its root), and the empty object when the text is empty or does not      *)
(* parse; and whenever the root is the empty object or is not an object,   *)
(* every typed accessor returns absent or its default.                     *)
(***************************************************************************)
AssembledDocument ==
  IF jsonString = <<>> \/ parse(jsonString).err THEN EmptyObject
  ELSE parse(jsonString).val

AllAbsent(data) ==
  \A key \in {"k", "voices"} : \A b \in BOOLEAN :
    /\ GetString(data, key) = Nullopt
    /\ GetStringList(data, key) = <<>>
    /\ GetUint32(data, key) = Nullopt
    /\ GetUint64(data, key) = Nullopt
    /\ GetInt32(data, key) = Nullopt
    /\ GetDouble(data, key) = Nullopt
    /\ GetBool(data, key) = Nullopt
    /\ CheckBool(data, key) = FALSE
    /\ GetRect(data, key, key, key, key) = Nullopt
    /\ GetInt32Rect(data, key, key, key, key) = Nullopt
    /\ GetNested(data, key, key) = Nullopt
    /\ GetAttribute(data, "bool", key, b) = Nullopt
    /\ GLParam(data, 1, b) = Nullopt
    /\ MParamGL(data, "bool", 1, b, b) = b
    /\ MParamGLVector(data, "bool", 1, <<b>>, b) = <<b>>
    /\ MShaderData(data, 1, 1, b) = Nullopt
    /\ MVoices(data) = Nullopt

C6_RootAfterInit ==
  initFlag = "done" =>
    /\ root = AssembledDocument
    /\ (root = EmptyObject \/ root.t # "object") => AllAbsent(root)

\* C6: the text did not parse, and the root is the empty object
C6_Witness ==
  /\ initFlag = "done" /\ logged
  /\ jsonString # <<>> /\ parse(jsonString).err
  /\ root = EmptyObject

\* C6 as it is claimed: once initialized, the root is always an object
C6_RootIsObject ==
  initFlag = "done" => (root = AssembledDocument /\ root.t = "object")

(***************************************************************************)
(* The typed accessors on an initialized document.                         *)
(*                                                                         *)
(* The documents are values the parser can yield; the text they were       *)
(* parsed from is not represented here (the variables of the text hold     *)
(* nothing).                                                               *)
(***************************************************************************)
IntMags == {Mag(0), Mag(5), U32Max, Pow32, I64Max, Pow63, U64Max}
Values ==
  {JInt(FALSE, m) : m \in IntMags}
    \cup {JInt(TRUE, Mag(1)), JInt(TRUE, Mag(5)), JInt(TRUE, Pow63)}
    \cup {JDbl(FALSE, Mag(5), FALSE), JDbl(FALSE, Mag(0), TRUE),
          JDbl(TRUE, Mag(5), FALSE)}
    \cup {JStr(<<"5">>), JStr(<<>>), JBool(TRUE), JBool(FALSE), JNull,
          JArr(<<JInt(FALSE, Mag(5))>>), EmptyObject}

\* the members, in the order of keys, of the keys f gives a value
RECURSIVE MembersOf(_, _)
MembersOf(keys, f) ==
  IF keys = <<>> THEN <<>>
  ELSE (IF f[Head(keys)].has THEN <<Member(Head(keys), f[Head(keys)].val)>>
        ELSE <<>>) \o MembersOf(Tail(keys), f)

UintDocs == {EmptyObject} \cup {JObj(<<Member("k", x)>>) : x \in Values}

RectKeys == <<"left", "top", "width", "height">>
RectValues ==
  {JInt(FALSE, Mag(5)), JInt(FALSE, U32Max), JInt(FALSE, Pow32),
   JInt(TRUE, Mag(1)), JStr(<<"5">>)}
RectDocs ==
  {JObj(MembersOf(RectKeys, f)) :
     f \in [{"left", "top", "width", "height"} ->
              {Nullopt} \cup {Some(x) : x \in RectValues}]}

\* parameter ids: one digit, two digits, and GL_MAX_TEXTURE_SIZE
PNames == {7, 10, 3379}
ParamDocs ==
  {JObj(<<Member(ParameterDomain(w), JObj(<<Member(to_string(p), x)>>))>>) :
     w \in BOOLEAN, p \in PNames, x \in Values}
    \cup {JObj(<<Member(ParameterDomain(w), x)>>) :
            w \in BOOLEAN, x \in {JNull, JInt(FALSE, Mag(5))}}

VoiceShape(localKey, lang, isDefault) ==
  JObj(<<Member("lang", lang), Member("name", JStr(<<"N">>)),
         Member("voiceUri", JStr(<<"u">>)), Member("isDefault", isDefault),
         Member(localKey, JBool(TRUE))>>)
VoiceElements ==
  {VoiceShape("isLocalService", JStr(<<"e", "n">>), JBool(FALSE)),
   VoiceShape("isLocalService", JStr(<<"f", "r">>), JBool(TRUE)),
   VoiceShape("isLocal", JStr(<<"d", "e">>), JBool(FALSE)),
   VoiceShape("isLocalService", JInt(FALSE, Mag(5)), JBool(FALSE)),
   VoiceShape("isLocalService", JStr(<<"e", "n">>), JStr(<<"n", "o">>)),
   JObj(<<Member("name", JStr(<<"N">>)), Member("voiceUri", JStr(<<"u">>)),
          Member("isDefault", JBool(FALSE)),
          Member("isLocalService", JBool(TRUE))>>),
   JInt(FALSE, Mag(5))}
VoiceDocs ==
  {JObj(<<Member("voices", JArr(a))>>) :
     a \in UNION {[1..n -> VoiceElements] : n \in 0..MaxVoices}}
    \cup {JObj(<<Member("voices", EmptyObject)>>)}

Docs == UintDocs \cup RectDocs \cup ParamDocs \cup VoiceDocs

CallGetUint32(key) ==
  /\ call' = <<"GetUint32", key>>
  /\ ret' = GetUint32(root, key)
  /\ UNCHANGED <<jsonVars, cacheVars>>

CallGetUint64(key) ==
  /\ call' = <<"GetUint64", key>>
  /\ ret' = GetUint64(root, key)
  /\ UNCHANGED <<jsonVars, cacheVars>>

CallGetRect ==
  /\ call' = <<"GetRect">> \o RectKeys
  /\ ret' = GetRect(root, RectKeys[1], RectKeys[2], RectKeys[3], RectKeys[4])
  /\ UNCHANGED <<jsonVars, cacheVars>>

CallGLParam(pname, isWebGL2) ==
  /\ call' = <<"GLParam", pname, isWebGL2>>
  /\ ret' = GLParam(root, pname, isWebGL2)
  /\ UNCHANGED <<jsonVars, cacheVars>>

CallMVoices ==
  /\ call' = <<"MVoices">>
  /\ ret' = MVoices(root)
  /\ UNCHANGED <<jsonVars, cacheVars>>

NextAcc ==
  \/ \E key \in {"k", "width", "voices"} : CallGetUint32(key)
  \/ \E key \in {"k", "width", "voices"} : CallGetUint64(key)
  \/ CallGetRect
  \/ \E pname \in PNames, isWebGL2 \in BOOLEAN : CallGLParam(pname, isWebGL2)
  \/ CallMVoices

\* GetJson has been called and has returned doc
JsonInitialized(doc) ==
  /\ env = [n \in EnvNames |-> Nullopt] /\ win32 = FALSE
  /\ initFlag = "done" /\ index = 1 /\ parts = <<>>
  /\ jsonString = <<>> /\ jsonPadded = <<>>
  /\ root = doc /\ logged = FALSE
  /\ pc = [t \in Threads |-> "idle"]
  /\ seen = [t \in Threads |-> Nullopt]
  /\ bodyRuns = 1
  /\ live = Threads

InitAcc ==
  /\ \E doc \in Docs : JsonInitialized(doc)
  /\ AccIdle /\ CacheIdle

SpecAcc == InitAcc /\ [][NextAcc]_vars

(***************************************************************************)
(* What a claim says a stored value is, read off the document itself.      *)
(***************************************************************************)
\* the value stored at key: the first member of the root with that key
Stored(key) ==
  IF root.t = "object" /\ \E i \in 1..Len(root.v) : root.v[i].k = key
    THEN Some(root.v[CHOOSE i \in 1..Len(root.v) :
                       /\ root.v[i].k = key
                       /\ \A j \in 1..(i - 1) : root.v[j].k # key].v)
    ELSE Nullopt

\* the magnitude of a JSON integer, in either encoding
MagOf(el) == IF el.t = "uint64" THEN el.v ELSE el.v.mag
\* a JSON integer v with 0 <= v <= max
IsIntegerUpTo(sv, max) ==
  /\ sv.has
  /\ sv.val.t \in {"int64", "uint64"}
  /\ (sv.val.t = "int64" => ~sv.val.v.neg)
  /\ MagLE(MagOf(sv.val), max)
AsUnsigned(sv, max) ==
  IF IsIntegerUpTo(sv, max) THEN Some(MagOf(sv.val)) ELSE Nullopt

(***************************************************************************)
(* C5.  GLParam returns the alternative of the stored value: the string    *)
(* alternative for a string, the double alternative for a double, the      *)
(* int64 alternative for an integer, the bool alternative for a boolean    *)
(* and the null alternative for null.                                      *)
(***************************************************************************)
C5_DecodeOrder ==
  (call # <<>> /\ call[1] = "GLParam") =>
    LET value == GetNested(root, ParameterDomain(call[3]), to_string(call[2]))
    IN value.has =>
         LET el == value.val
         IN /\ el.t = "null" => ret = Some(Variant("nullptr_t", <<>>))
            /\ el.t = "string" => ret = Some(Variant("string", el.v))
            /\ el.t = "double" => ret = Some(Variant("double", el.v))
            /\ el.t = "int64" => ret = Some(Variant("int64_t", el.v))
            /\ el.t = "bool" => ret = Some(Variant("bool", el.v))

(***************************************************************************)
(* C7.  GetUint32(k) returns v exactly when the value v stored at k is a   *)
(* JSON integer, in either encoding, with 0 <= v <= 4294967295, and absent *)
(* in every other case; GetUint64(k) likewise with the bound 2^64-1.       *)
(* 4294967295 is returned, 4294967296 is absent.                           *)
(***************************************************************************)
C7_UnsignedRange ==
  /\ (call # <<>> /\ call[1] = "GetUint32") =>
       /\ ret = AsUnsigned(Stored(call[2]), U32Max)
       /\ Stored(call[2]) = Some(JInt(FALSE, U32Max)) => ret = Some(U32Max)
       /\ Stored(call[2]) = Some(JInt(FALSE, Pow32)) => ret = Nullopt
  /\ (call # <<>> /\ call[1] = "GetUint64") =>
       ret = AsUnsigned(Stored(call[2]), U64Max)

\* C7: GetUint32 of 4294967295 has returned it
C7_Witness ==
  /\ call = <<"GetUint32", "k">>
  /\ Stored("k") = Some(JInt(FALSE, U32Max))
  /\ ret = Some(U32Max)

(***************************************************************************)
(* C8.  GetRect returns absent whenever width or height does not resolve   *)
(* to an unsigned 32-bit value, whatever left and top are; when both       *)
(* resolve it returns {l, t, w, h}, l and t being the resolved left and    *)
(* top or 0 for each that is absent.                                       *)
(***************************************************************************)
C8_Rect ==
  (call # <<>> /\ call[1] = "GetRect") =>
    LET l == AsUnsigned(Stored(call[2]), U32Max)
        t == AsUnsigned(Stored(call[3]), U32Max)
        w == AsUnsigned(Stored(call[4]), U32Max)
        h == AsUnsigned(Stored(call[5]), U32Max)
    IN IF w.has /\ h.has
         THEN ret = Some(<<IF l.has THEN l.val ELSE Mag(0),
                           IF t.has THEN t.val ELSE Mag(0), w.val, h.val>>)
         ELSE ret = Nullopt

\* C8: width and height resolve, left is absent and top does not resolve
C8_Witness ==
  /\ call # <<>> /\ call[1] = "GetRect"
  /\ Stored("left") = Nullopt
  /\ Stored("top") = Some(JInt(FALSE, Pow32))
  /\ ret = Some(<<Mag(0), Mag(0), Mag(5), U32Max>>)

(***************************************************************************)
(* C9.  When "voices" is an array, MVoices returns, in order, exactly its  *)
(* well-formed entries: an entry that is not an object, or lacks one of    *)
(* the five keys, or has one of them with the wrong type (three strings,   *)
(* two booleans) is skipped, and no other entry is dropped or moved.  The  *)
(* five keys are lang, name, voiceUri, isDefault and isLocalService.       *)
(***************************************************************************)
FirstAt(ms, key) ==
  ms[CHOOSE i \in 1..Len(ms) :
       ms[i].k = key /\ \A j \in 1..(i - 1) : ms[j].k # key].v
WellFormedVoice(e, keys) ==
  /\ e.t = "object"
  /\ \A n \in 1..5 : \E i \in 1..Len(e.v) : e.v[i].k = keys[n]
  /\ \A n \in 1..3 : FirstAt(e.v, keys[n]).t = "string"
  /\ \A n \in 4..5 : FirstAt(e.v, keys[n]).t = "bool"
VoiceTuple(e, keys) == [n \in 1..5 |-> FirstAt(e.v, keys[n]).v]
RECURSIVE WellFormedVoices(_, _)
WellFormedVoices(arr, keys) ==
  IF arr = <<>> THEN <<>>
  ELSE (IF WellFormedVoice(Head(arr), keys)
          THEN <<VoiceTuple(Head(arr), keys)>> ELSE <<>>)
       \o WellFormedVoices(Tail(arr), keys)

VoicesAs(keys) ==
  (call = <<"MVoices">> /\ Stored("voices").has
     /\ Stored("voices").val.t = "array") =>
    ret = Some(WellFormedVoices(Stored("voices").val.v, keys))

C9_VoicesSubsequence ==
  VoicesAs(<<"lang", "name", "voiceUri", "isDefault", "isLocalService">>)

\* C9: a malformed entry between two well-formed ones, the two returned in
\* order
C9_Witness ==
  /\ call = <<"MVoices">>
  /\ Stored("voices").has /\ Stored("voices").val.t = "array"
  /\ Len(Stored("voices").val.v) = 3
  /\ ret.has /\ Len(ret.val) = 2
  /\ ret.val[1][1] = <<"e", "n">> /\ ret.val[2][1] = <<"f", "r">>
  /\ Stored("voices").val.v[2].t = "object"

\* C9 as it is claimed: the fifth key is isLocal, as the payload format
\* documents it
C9_DocumentedShape ==
  VoicesAs(<<"lang", "name", "voiceUri", "isDefault", "isLocal">>)

(***************************************************************************)
(* GetStringListLower, one action per step of a call.  cacheLock is held   *)
(* by the threads in readers or by the thread in writer.                   *)
(***************************************************************************)
\* a lookup that never finds the entry
FindNothing(c, key) == Nullopt

\* cache.find(key): the entry, or cache.end()
Find(c, key) == IF key \in DOMAIN c THEN Some(c[key]) ELSE Nullopt

\* operator[] in place of emplace: the list is stored whether or not the key
\* has an entry
EmplaceAssign(c, key, value) ==
  [cache |-> [k \in DOMAIN c \cup {key} |-> IF k = key THEN value ELSE c[k]],
   it |-> value, inserted |-> TRUE]

\* cache.emplace(key, value): nothing is stored when the key has an entry
Emplace(c, key, value) ==
  IF key \in DOMAIN c
    THEN [cache |-> c, it |-> c[key], inserted |-> FALSE]
    ELSE [cache |-> [k \in DOMAIN c \cup {key} |->
                       IF k = key THEN value ELSE c[k]],
          it |-> value, inserted |-> TRUE]

\* a thread calls GetStringListLower(key)
CallLower(t, key) ==
  /\ cpc[t] = "idle"
  /\ ncalls < MaxCalls
  /\ ncalls' = ncalls + 1
  /\ ckey' = [ckey EXCEPT ![t] = key]
  /\ cresult' = [cresult EXCEPT ![t] = <<>>]
  /\ cret' = [cret EXCEPT ![t] = Nullopt]
  /\ cpc' = [cpc EXCEPT ![t] = "read_lock"]
  /\ UNCHANGED <<readers, writer, cache, computes, commits>>
  /\ UNCHANGED <<jsonVars, accVars>>

\* AutoReadLock readLock(cacheLock): waits while a writer holds the lock
AcquireRead(t) ==
  /\ cpc[t] = "read_lock"
  /\ writer = {}
  /\ readers' = readers \cup {t}
  /\ cpc' = [cpc EXCEPT ![t] = "find"]
  /\ UNCHANGED <<writer, cache, ckey, cresult, cret, ncalls, computes, commits>>
  /\ UNCHANGED <<jsonVars, accVars>>

\* cache.find(key); on a hit the entry is copied as the return value
FindEntry(t) ==
  /\ cpc[t] = "find"
  /\ LET it == Find(cache, ckey[t])
     IN IF it.has
          THEN /\ cret' = [cret EXCEPT ![t] = Some(it.val)]
               /\ cpc' = [cpc EXCEPT ![t] = "read_unlock_hit"]
          ELSE /\ cpc' = [cpc EXCEPT ![t] = "read_unlock_miss"]
               /\ UNCHANGED cret
  /\ UNCHANGED <<readers, writer, cache, ckey, cresult, ncalls, computes,
                 commits>>
  /\ UNCHANGED <<jsonVars, accVars>>

\* readLock lives to the end of the function: on a miss the read lock is
\* still held when the write lock is requested
ReleaseReadAtReturn(t) ==
  /\ cpc[t] \in {"read_unlock_hit", "read_unlock_miss"}
  /\ readers' = IF cpc[t] = "read_unlock_hit" THEN readers \ {t} ELSE readers
  /\ cpc' = [cpc EXCEPT ![t] =
               IF cpc[t] = "read_unlock_hit" THEN "idle" ELSE "compute"]
  /\ UNCHANGED <<writer, cache, ckey, cresult, cret, ncalls, computes, commits>>
  /\ UNCHANGED <<jsonVars, accVars>>

\* readLock goes out of scope: on a hit the call returns, on a miss it goes
\* on to compute
ReleaseRead(t) ==
  /\ cpc[t] \in {"read_unlock_hit", "read_unlock_miss"}
  /\ readers' = readers \ {t}
  /\ cpc' = [cpc EXCEPT ![t] =
               IF cpc[t] = "read_unlock_hit" THEN "idle" ELSE "compute"]
  /\ UNCHANGED <<writer, cache, ckey, cresult, cret, ncalls, computes, commits>>
  /\ UNCHANGED <<jsonVars, accVars>>

\* result = GetStringList(key), each string lowercased; no lock is held
ComputeList(t) ==
  /\ cpc[t] = "compute"
  /\ cresult' = [cresult EXCEPT ![t] = LowerList(GetStringList(root, ckey[t]))]
  /\ computes' = [computes EXCEPT ![t][ckey[t]] = @ + 1]
  /\ cpc' = [cpc EXCEPT ![t] = "write_lock"]
  /\ UNCHANGED <<readers, writer, cache, ckey, cret, ncalls, commits>>
  /\ UNCHANGED <<jsonVars, accVars>>

\* AutoWriteLock writeLock(cacheLock): waits while anyone holds the lock
AcquireWrite(t) ==
  /\ cpc[t] = "write_lock"
  /\ readers = {} /\ writer = {}
  /\ writer' = {t}
  /\ cpc' = [cpc EXCEPT ![t] = "emplace"]
  /\ UNCHANGED <<readers, cache, ckey, cresult, cret, ncalls, computes, commits>>
  /\ UNCHANGED <<jsonVars, accVars>>

\* cache.emplace(key, std::move(result)); it->second is copied as the return
\* value
EmplaceEntry(t) ==
  /\ cpc[t] = "emplace"
  /\ LET r == Emplace(cache, ckey[t], cresult[t])
     IN /\ cache' = r.cache
        /\ cret' = [cret EXCEPT ![t] = Some(r.it)]
        /\ commits' = [commits EXCEPT ![ckey[t]] =
                         IF r.inserted THEN @ + 1 ELSE @]
  /\ cpc' = [cpc EXCEPT ![t] = "write_unlock"]
  /\ UNCHANGED <<readers, writer, ckey, cresult, ncalls, computes>>
  /\ UNCHANGED <<jsonVars, accVars>>

\* writeLock goes out of scope and the call returns
ReleaseWrite(t) ==
  /\ cpc[t] = "write_unlock"
  /\ writer' = writer \ {t}
  /\ cpc' = [cpc EXCEPT ![t] = "idle"]
  /\ UNCHANGED <<readers, cache, ckey, cresult, cret, ncalls, computes, commits>>
  /\ UNCHANGED <<jsonVars, accVars>>

\* the steps of a call once it is made
LowerStep(t) ==
  \/ AcquireRead(t)
  \/ FindEntry(t)
  \/ ReleaseRead(t)
  \/ ComputeList(t)
  \/ AcquireWrite(t)
  \/ EmplaceEntry(t)
  \/ ReleaseWrite(t)

NextCache ==
  \E t \in Threads :
    \/ \E key \in CacheKeys : CallLower(t, key)
    \/ LowerStep(t)

\* documents with string lists under the keys, mixed case and non-strings
\* included
CacheDocs ==
  {JObj(<<Member("a", JArr(<<JStr(<<"A", "b">>), JInt(FALSE, Mag(5)),
                             JStr(<<"c", "D", "1">>)>>)),
          Member("b", JStr(<<"X">>))>>),
   JObj(<<Member("b", JArr(<<JStr(<<"Z">>)>>))>>)}

InitCache ==
  /\ \E doc \in CacheDocs : JsonInitialized(doc)
  /\ AccIdle /\ CacheIdle

SpecCache == InitCache /\ [][NextCache]_vars

\* every thread that is in a call keeps taking steps
SpecCacheFair == SpecCache /\ \A t \in Threads : WF_vars(LowerStep(t))

(***************************************************************************)
(* C2.  For every key at most one list is ever committed to the cache: an  *)
(* entry exists exactly when one insertion took effect, no insertion takes *)
(* effect for a key that has an entry, and every caller, the one whose     *)
(* computed list lost the race included, returns the entry in the cache.   *)
(***************************************************************************)
C2_FirstInsertWins ==
  /\ \A k \in CacheKeys :
       /\ commits[k] <= 1
       /\ k \in DOMAIN cache <=> commits[k] = 1
  /\ \A t \in Threads :
       cret[t].has => (ckey[t] \in DOMAIN cache /\ cret[t].val = cache[ckey[t]])

\* C2: two threads each computed the list of one key, both have returned from
\* that key's call, and one insertion took effect
C2_Witness ==
  \E t, u \in Threads : \E k \in CacheKeys :
    /\ t # u
    /\ ckey[t] = k /\ ckey[u] = k
    /\ computes[t][k] = 1 /\ computes[u][k] = 1
    /\ cpc[t] = "idle" /\ cpc[u] = "idle"
    /\ cret[t].has /\ cret[u].has
    /\ commits[k] = 1

(***************************************************************************)
(* C3.  All callers of GetStringListLower(k) receive identical content,    *)
(* the lowercased source list, and each calling thread computes the source *)
(* list of k at most once (callers that miss concurrently each compute it, *)
(* outside any lock).                                                      *)
(***************************************************************************)
C3_IdenticalOncePerThread ==
  /\ \A t \in Threads :
       cret[t].has => cret[t].val = LowerList(GetStringList(root, ckey[t]))
  /\ \A t, u \in Threads :
       (cret[t].has /\ cret[u].has /\ ckey[t] = ckey[u]) => cret[t] = cret[u]
  /\ \A t \in Threads : \A k \in CacheKeys : computes[t][k] <= 1

\* C3: a thread that computed the list of a key in an earlier call has returned
\* from a call for that key in which it computed nothing: the cached list,
\* which holds a lowercased string
C3_Witness ==
  \E t \in Threads :
    /\ cpc[t] = "idle" /\ cret[t].has
    /\ ckey[t] \in CacheKeys
    /\ computes[t][ckey[t]] = 1 /\ cresult[t] = <<>>
    /\ cret[t].val # <<>> /\ cret[t].val[1] = <<"a", "b">>

\* C3 as it is claimed: across all callers the source list of a key is
\* computed at most once
RECURSIVE TotalComputes(_, _)
TotalComputes(k, ts) ==
  IF ts = {} THEN 0
  ELSE LET t == CHOOSE x \in ts : TRUE
       IN computes[t][k] + TotalComputes(k, ts \ {t})

C3_ComputedOnce == \A k \in CacheKeys : TotalComputes(k, Threads) <= 1

(***************************************************************************)
(* C10.  Every call of GetStringListLower eventually returns: a thread     *)
(* holds the read lock only while it looks the key up, holds no lock while *)
(* it waits for one, a state in which a call is in progress has a step to  *)
(* take, and, the calls being MaxCalls at most, there comes a state from   *)
(* which on every call that was made has returned.                         *)
(***************************************************************************)
LockDiscipline ==
  /\ Cardinality(writer) <= 1
  /\ writer # {} => readers = {}
  /\ \A t \in Threads :
       /\ t \in readers <=>
            cpc[t] \in {"find", "read_unlock_hit", "read_unlock_miss"}
       /\ t \in writer <=> cpc[t] \in {"emplace", "write_unlock"}
       /\ cpc[t] \in {"read_lock", "write_lock"} =>
            (t \notin readers /\ t \notin writer)

NoDeadlock ==
  (\E t \in Threads : cpc[t] # "idle") => ENABLED (\E t \in Threads : LowerStep(t))

C10_EveryCallReturns ==
  /\ [](LockDiscipline /\ NoDeadlock)
  /\ <>[](\A t \in Threads : cpc[t] = "idle")

\* C10: a thread waits for the write lock while another holds the read lock
C10_Witness ==
  \E t, u \in Threads :
    /\ t # u
    /\ cpc[t] = "write_lock"
    /\ u \in readers

====
